---------------------------- MODULE Spec2Model ----------------------------
(***************************************************************************)
(* A model of the mistertrade exchange layer: the fee-adjusted pricing     *)
(* rule, order-book validation, the minimum-trade-size check and its memo, *)
(* the order, order-book and wallet calls of the binance, bittrex and      *)
(* hitbtc backends, a run of an exchange's command line, the command       *)
(* registry of the command line and the registry of exchanges.             *)
(*                                                                         *)
(* Conventions.                                                            *)
(*  - Function bodies are modelled as written.  Module-level imports are   *)
(*    taken as resolved (math and yaml in abstract.py are the modules of   *)
(*    those names); a name that no import could supply (market_coin in     *)
(*    validate_minimum_trade_size) is the NameError Python raises.         *)
(*  - Python floats are modelled as exact fixed-point numbers: a cash      *)
(*    amount is an integer count of 1/FineDenom units, a quantity is an    *)
(*    integer count of quantity units.                                     *)
(*  - A call is one action.  Its result is a record                        *)
(*    [raised |-> exception name or "none", value |-> returned value].     *)
(***************************************************************************)
EXTENDS Integers, Sequences, FiniteSets, TLC

VARIABLES
    backend,              \* the exchange whose API instance is in use
    pricing,              \* SpecPrice: arguments and results of price_with_fee
    book,                 \* SpecBook: argument and result of validate_orderbook
    minimum_trade_sizes,  \* ExchangeAPI.__minimum_trade_sizes
    call,                 \* the last call: operation and arguments
    events,               \* what the last API call did, in order
    outcome,              \* the last call's result
    classes,              \* SpecCmd: the command-bearing classes and their members
    exchanges             \* SpecReg: the module mistertrade.exchanges

vars == <<backend, pricing, book, minimum_trade_sizes, call, events, outcome,
          classes, exchanges>>

Backends == {"binance", "bittrex", "hitbtc"}

NoValue == "NoValue"
Idle == [pc |-> "idle"]

Abs(x) == IF x < 0 THEN -x ELSE x

RECURSIVE Pow10(_)
Pow10(n) == IF n = 0 THEN 1 ELSE 10 * Pow10(n - 1)

\* math.floor and math.ceil of the rational num/den, den > 0
Floor(num, den) == num \div den
Ceil(num, den) == -((-num) \div den)

(***************************************************************************)
(* Strings: a str is a sequence of one-character strings                   *)
(***************************************************************************)

LowerLetters ==
    <<"a", "b", "c", "d", "e", "f", "g", "h", "i", "j", "k", "l", "m",
      "n", "o", "p", "q", "r", "s", "t", "u", "v", "w", "x", "y", "z">>

UpperLetters ==
    <<"A", "B", "C", "D", "E", "F", "G", "H", "I", "J", "K", "L", "M",
      "N", "O", "P", "Q", "R", "S", "T", "U", "V", "W", "X", "Y", "Z">>

DigitChars == <<"0", "1", "2", "3", "4", "5", "6", "7", "8", "9">>

InSeq(seq, c) == \E i \in 1..Len(seq) : seq[i] = c
IndexIn(seq, c) == CHOOSE i \in 1..Len(seq) : seq[i] = c

\* the code point of a character, the order str comparison goes by
ord(c) ==
    IF InSeq(LowerLetters, c) THEN 96 + IndexIn(LowerLetters, c)
    ELSE IF InSeq(UpperLetters, c) THEN 64 + IndexIn(UpperLetters, c)
    ELSE IF InSeq(DigitChars, c) THEN 47 + IndexIn(DigitChars, c)
    ELSE IF c = "_" THEN 95
    ELSE IF c = "-" THEN 45
    ELSE 10

\* str.lower()
str_lower(str) ==
    [i \in 1..Len(str) |->
        IF InSeq(UpperLetters, str[i])
        THEN LowerLetters[IndexIn(UpperLetters, str[i])]
        ELSE str[i]]

\* str.replace(old, new) for one-character old and new
str_replace(str, old, new) ==
    [i \in 1..Len(str) |-> IF str[i] = old THEN new ELSE str[i]]

\* s < t on str: the first differing character decides, a proper prefix is
\* smaller
StrLess(s, t) ==
    \E k \in 1..(Len(t)) :
        /\ \A i \in 1..(k - 1) : i <= Len(s) /\ s[i] = t[i]
        /\ \/ k = Len(s) + 1
           \/ k <= Len(s) /\ ord(s[k]) < ord(t[k])

\* sorted(S) for a set of str
RECURSIVE SortedSeq(_)
SortedSeq(S) ==
    IF S = {} THEN <<>>
    ELSE LET least == CHOOSE x \in S : \A y \in S : x = y \/ StrLess(x, y)
         IN  <<least>> \o SortedSeq(S \ {least})

\* a character of the class [a-z0-9-]
InNameClass(c) ==
    InSeq(LowerLetters, c) \/ InSeq(DigitChars, c) \/ c = "-"

AllInNameClass(str, n) == \A i \in 1..n : InNameClass(str[i])

\* a name of lower-case letters, digits and hyphens, three or more of them
IsValidName(name) ==
    Len(name) >= 3 /\ AllInNameClass(name, Len(name))

\* re.compile("^[a-z0-9-]{3,}$").match(name): three or more characters of the
\* class up to the end of the string, where $ also matches just before a
\* newline that ends the string
name_pattern_match(name) ==
    \/ Len(name) >= 3 /\ AllInNameClass(name, Len(name))
    \/ /\ Len(name) >= 4
       /\ name[Len(name)] = "\n"
       /\ AllInNameClass(name, Len(name) - 1)

(***************************************************************************)
(* Fee-adjusted pricing                                                    *)
(***************************************************************************)

\* input prices have InputDigits decimal digits: they are the multiples of
\* 1/PriceDenom up to MaxPrice/PriceDenom
InputDigits == 1
MaxPrice == 12
PriceDenom == Pow10(InputDigits)
MaxPrecision == 2

\* the fee rate 0.0025 = FeeRateNum / FeeRateDen
FeeRateNum == 25
FeeRateDen == 10000

\* precision=8, the default of price_with_fee; 10000000 = 10^7, the factor
\* BittrexAPI.__parse_order rounds with
DefaultPrecision == 8
BittrexPrecision == 7

\* cash amounts are counted in units of 1/FineDenom = 10^-8, the last digit
\* the default precision keeps; the fee of every input price is a whole
\* number of them
FineDenom == Pow10(DefaultPrecision)

Prices == {n * (FineDenom \div PriceDenom) : n \in (-MaxPrice)..MaxPrice}
Precisions == 0..MaxPrecision
Sides == {"buy", "sell", "BUY", "hold"}
BaseCoins == {"USDT", "BTC"}

\* BinanceAPI.fee, BittrexAPI.fee, HitbtcAPI.fee: quantity * 0.0025
\* (the product is taken by parts, which keeps the intermediate values small)
fee(b, quantity, base_coin) ==
    (quantity \div FeeRateDen) * FeeRateNum
        + ((quantity % FeeRateDen) * FeeRateNum) \div FeeRateDen

\* the rounding step of price_with_fee: floor_or_ceil(amount * 10^p) / 10^p,
\* with amount * 10^p / FineDenom taken as amount / (FineDenom / 10^p).
\* Where 10^p is a multiple of FineDenom, amount * 10^p is a whole number and
\* neither floor nor ceil changes it.
RoundAt(floor_or_ceil, amount, precision) ==
    IF Pow10(precision) >= FineDenom
    THEN amount
    ELSE LET scaled == IF floor_or_ceil = "floor"
                       THEN Floor(amount, FineDenom \div Pow10(precision))
                       ELSE Ceil(amount, FineDenom \div Pow10(precision))
         IN  scaled * (FineDenom \div Pow10(precision))

price_with_fee_feefirst(b, buy_or_sell, price, base_coin, precision) ==
    IF buy_or_sell \notin {"buy", "sell"}
    THEN [raised |-> "ValueError", value |-> NoValue, fee_calls |-> 1]
    ELSE [raised |-> "none", value |-> 0, fee_calls |-> 1]

price_with_fee_round_swapped(b, buy_or_sell, price, base_coin, precision) ==
    IF buy_or_sell \notin {"buy", "sell"}
    THEN [raised |-> "ValueError", value |-> NoValue, fee_calls |-> 0]
    ELSE LET f == Abs(fee(b, price, base_coin))
             p == Abs(price)
         IN  [raised |-> "none",
              value |-> IF buy_or_sell = "sell"
                        THEN RoundAt("ceil", p - f, precision)
                        ELSE RoundAt("floor", p + f, precision),
              fee_calls |-> 1]

price_with_fee_noabs(b, buy_or_sell, price, base_coin, precision) ==
    IF buy_or_sell \notin {"buy", "sell"}
    THEN [raised |-> "ValueError", value |-> NoValue, fee_calls |-> 0]
    ELSE LET f == fee(b, price, base_coin)
             p == price
         IN  [raised |-> "none",
              value |-> IF buy_or_sell = "sell"
                        THEN RoundAt("floor", p - f, precision)
                        ELSE RoundAt("ceil", p + f, precision),
              fee_calls |-> 1]

\* ExchangeAPI.price_with_fee; fee_calls counts the calls of self.fee
price_with_fee(b, buy_or_sell, price, base_coin, precision) ==
    IF buy_or_sell \notin {"buy", "sell"}
    THEN [raised |-> "ValueError", value |-> NoValue, fee_calls |-> 0]
    ELSE LET f == Abs(fee(b, price, base_coin))
             p == Abs(price)
         IN  [raised |-> "none",
              value |-> IF buy_or_sell = "sell"
                        THEN RoundAt("floor", p + f * (-1), precision)
                        ELSE RoundAt("ceil", p + f, precision),
              fee_calls |-> 1]

IdleApi ==
    /\ minimum_trade_sizes = [built |-> FALSE]
    /\ call = Idle
    /\ events = <<>>
    /\ outcome = Idle
    /\ classes = Idle
    /\ exchanges = Idle

InitPrice ==
    /\ backend \in Backends
    /\ pricing \in [pc : {"input"}, buy_or_sell : Sides, price : Prices,
                    price2 : Prices, base_coin : BaseCoins,
                    precision : Precisions, ret : {NoValue}, ret2 : {NoValue}]
    /\ book = Idle
    /\ IdleApi

\* price_with_fee applied to the drawn arguments, once per price
PriceWithFee ==
    /\ pricing.pc = "input"
    /\ pricing' = [pricing EXCEPT
           !.pc = "returned",
           !.ret = price_with_fee(backend, pricing.buy_or_sell, pricing.price,
                                  pricing.base_coin, pricing.precision),
           !.ret2 = price_with_fee(backend, pricing.buy_or_sell, pricing.price2,
                                   pricing.base_coin, pricing.precision)]
    /\ UNCHANGED <<backend, book, minimum_trade_sizes, call, events, outcome,
                   classes, exchanges>>

NextPrice == PriceWithFee

SpecPrice == InitPrice /\ [][NextPrice]_vars

Returned == pricing.pc = "returned" /\ pricing.ret.raised = "none"

\* the rounding grain 10^-precision, in fine units
Grain == FineDenom \div Pow10(pricing.precision)

C6_BadSideRejected ==
    (pricing.pc = "returned" /\ pricing.buy_or_sell \notin {"buy", "sell"}) =>
        /\ pricing.ret.raised = "ValueError"
        /\ pricing.ret.value = NoValue
        /\ pricing.ret.fee_calls = 0

C6_Witness ==
    /\ pricing.pc = "returned"
    /\ pricing.buy_or_sell = "BUY"
    /\ pricing.ret.raised = "ValueError"

(***************************************************************************)
(* Order-book validation                                                   *)
(***************************************************************************)

MaxBookLen == 3

\* two distinct rates order a pair of entries either way
Rates == {1, 2}

\* an order-book entry: a dict that may lack the key quantity or the key rate
\* (rate is read only where has_rate holds)
Entries ==
    [has_quantity : {TRUE}, has_rate : {TRUE}, rate : Rates]
        \cup {[has_quantity |-> FALSE, has_rate |-> TRUE, rate |-> 1],
              [has_quantity |-> TRUE, has_rate |-> FALSE, rate |-> 1]}

BookSides == UNION {[1..n -> Entries] : n \in 0..MaxBookLen}

\* what a backend hands to validate_orderbook: None, or a dict that may lack
\* the key buy or the key sell (a side is read only where has_ holds)
OrderBooks ==
    {[is_none |-> TRUE, has_buy |-> FALSE, has_sell |-> FALSE,
      buy |-> <<>>, sell |-> <<>>]}
    \cup [is_none : {FALSE}, has_buy : {TRUE}, has_sell : {TRUE},
          buy : BookSides, sell : BookSides]
    \cup [is_none : {FALSE}, has_buy : {FALSE}, has_sell : {TRUE},
          buy : {<<>>}, sell : BookSides]
    \cup [is_none : {FALSE}, has_buy : {TRUE}, has_sell : {FALSE},
          buy : BookSides, sell : {<<>>}]
    \cup [is_none : {FALSE}, has_buy : {FALSE}, has_sell : {FALSE},
          buy : {<<>>}, sell : {<<>>}]

\* any('quantity' not in item or 'rate' not in item for item in side)
Incomplete(side) ==
    \E i \in 1..Len(side) : ~side[i].has_quantity \/ ~side[i].has_rate

validate_orderbook_lengths_unchecked(orderbook, minimum_length) ==
    IF orderbook.is_none THEN "ValueError"
    ELSE IF ~orderbook.has_buy \/ ~orderbook.has_sell THEN "KeyError"
    ELSE IF Incomplete(orderbook.buy) THEN "KeyError"
    ELSE IF Incomplete(orderbook.sell) THEN "KeyError"
    ELSE IF Len(orderbook.buy) = 0 THEN "IndexError"
    ELSE IF orderbook.buy[1].rate < orderbook.buy[Len(orderbook.buy)].rate
         THEN "ValueError"
    ELSE IF Len(orderbook.sell) = 0 THEN "IndexError"
    ELSE IF orderbook.sell[1].rate > orderbook.sell[Len(orderbook.sell)].rate
         THEN "ValueError"
    ELSE "none"

\* ExchangeAPI.validate_orderbook: the exception it raises, or "none" when it
\* returns.  orderbook[side][0] and [-1] are the first and last entries and
\* raise IndexError on an empty side.
validate_orderbook(orderbook, minimum_length) ==
    IF orderbook.is_none THEN "ValueError"
    ELSE IF ~orderbook.has_buy \/ ~orderbook.has_sell THEN "KeyError"
    ELSE IF Len(orderbook.buy) < minimum_length
              \/ Len(orderbook.sell) < minimum_length THEN "ValueError"
    ELSE IF Incomplete(orderbook.buy) THEN "KeyError"
    ELSE IF Incomplete(orderbook.sell) THEN "KeyError"
    ELSE IF Len(orderbook.buy) = 0 THEN "IndexError"
    ELSE IF orderbook.buy[1].rate < orderbook.buy[Len(orderbook.buy)].rate
         THEN "ValueError"
    ELSE IF Len(orderbook.sell) = 0 THEN "IndexError"
    ELSE IF orderbook.sell[1].rate > orderbook.sell[Len(orderbook.sell)].rate
         THEN "ValueError"
    ELSE "none"

InitBook ==
    /\ backend = "binance"
    /\ pricing = Idle
    /\ book \in [pc : {"input"}, orderbook : OrderBooks,
                 minimum_length : 0..MaxBookLen, raised : {NoValue}]
    /\ IdleApi

\* validate_orderbook applied to the drawn order book
ValidateOrderbook ==
    /\ book.pc = "input"
    /\ book' = [book EXCEPT
           !.pc = "returned",
           !.raised = validate_orderbook(book.orderbook, book.minimum_length)]
    /\ UNCHANGED <<backend, pricing, minimum_trade_sizes, call, events, outcome,
                   classes, exchanges>>

NextBook == ValidateOrderbook

SpecBook == InitBook /\ [][NextBook]_vars

HasSides ==
    /\ ~book.orderbook.is_none
    /\ book.orderbook.has_buy
    /\ book.orderbook.has_sell

Complete ==
    /\ HasSides
    /\ ~Incomplete(book.orderbook.buy)
    /\ ~Incomplete(book.orderbook.sell)

NonIncreasing(side) ==
    \A i \in 1..(Len(side) - 1) : side[i].rate >= side[i + 1].rate

NonDecreasing(side) ==
    \A i \in 1..(Len(side) - 1) : side[i].rate <= side[i + 1].rate

\* C9: every order book whose buy side is not non-increasing by rate, or
\* whose sell side is not non-decreasing by rate, is rejected
C9_UnsortedRejected ==
    (/\ book.pc = "returned"
     /\ Complete
     /\ \/ ~NonIncreasing(book.orderbook.buy)
        \/ ~NonDecreasing(book.orderbook.sell))
        => book.raised # "none"

\* C10: an order book that lacks a side, has a side shorter than
\* minimum_length, or has an entry without quantity or rate is rejected
C10_StructureRejected ==
    (/\ book.pc = "returned"
     /\ \/ ~HasSides
        \/ Len(book.orderbook.buy) < book.minimum_length
        \/ Len(book.orderbook.sell) < book.minimum_length
        \/ ~Complete)
        => book.raised # "none"

C10_Witness ==
    /\ book.pc = "returned"
    /\ HasSides
    /\ Len(book.orderbook.buy) = MaxBookLen
    /\ Len(book.orderbook.sell) = MaxBookLen
    /\ book.minimum_length = MaxBookLen
    /\ Incomplete(book.orderbook.sell)
    /\ ~Incomplete(book.orderbook.buy)
    /\ book.raised = "KeyError"

(***************************************************************************)
(* Backend calls: minimum trade size, order placement, order queries       *)
(***************************************************************************)

MaxQty == 2
MaxOrders == 2

Markets == {"USDT-BTC", "BTC-XMR"}

\* base_coin, market_coin = market.split('-')
base_coin_of(market) == IF market = "USDT-BTC" THEN "USDT" ELSE "BTC"
market_coin_of(market) == IF market = "USDT-BTC" THEN "BTC" ELSE "XMR"

\* rates and cash amounts of order payloads, in fine units: LimitRate is the
\* smallest rate whose fee is a whole fine unit, so that the fee of
\* quantity * rate is exact and quantity * rate with the fee added or
\* subtracted has a digit in the eighth decimal place; PaidPrice is a multiple
\* of every drawn quantity
LimitRate == FeeRateDen \div FeeRateNum
PaidPrice == 6 * LimitRate

\* outcome of a request: the HTTP layer fails (raise_for_status), the service
\* answers success = false, or it answers with a body
Statuses == {"ok", "HTTPError", "unsuccessful"}

\* ---- the market listing and the minimum-trade-size memo ----

NoListing == [m \in Markets |-> [listed |-> FALSE, size |-> 0]]

\* market -> minimum_trade_size, as the listing of markets() gives it
MarketLists ==
    {[m \in Markets |-> IF m = "USDT-BTC" THEN [listed |-> TRUE, size |-> MaxQty]
                                          ELSE [listed |-> FALSE, size |-> 0]],
     [m \in Markets |-> [listed |-> TRUE, size |-> 1]]}

MarketsResponses ==
    [status : {"ok"}, markets : MarketLists]
        \cup [status : {"HTTPError", "unsuccessful"}, markets : {NoListing}]

\* self.__minimum_trade_sizes: no attribute until the first successful build
NoMemo == [built |-> FALSE, sizes |-> NoListing]

\* what request() raises for a response: only bittrex inspects success
request_raises(b, status) ==
    IF status = "HTTPError" THEN "HTTPError"
    ELSE IF status = "unsuccessful" /\ b = "bittrex" THEN "ExchangeError"
    ELSE "none"

\* the dict lookup self.__minimum_trade_sizes[market]
Lookup(memo, market) ==
    IF memo.sizes[market].listed
    THEN [raised |-> "none", value |-> memo.sizes[market].size]
    ELSE [raised |-> "KeyError", value |-> 0]

minimum_trade_size_refetch(b, memo, market, mresp) ==
    IF request_raises(b, mresp.status) # "none"
    THEN [raised |-> request_raises(b, mresp.status), value |-> 0,
          memo |-> memo, events |-> <<"request:markets">>]
    ELSE LET built == [built |-> TRUE, sizes |-> mresp.markets]
         IN  [raised |-> Lookup(built, market).raised,
              value |-> Lookup(built, market).value,
              memo |-> built, events |-> <<"request:markets">>]

\* ExchangeAPI.minimum_trade_size: the lookup, and on AttributeError (no
\* memo yet) a markets() fetch that builds the memo
minimum_trade_size(b, memo, market, mresp) ==
    IF memo.built
    THEN [raised |-> Lookup(memo, market).raised,
          value |-> Lookup(memo, market).value,
          memo |-> memo, events |-> <<>>]
    ELSE IF request_raises(b, mresp.status) # "none"
    THEN [raised |-> request_raises(b, mresp.status), value |-> 0,
          memo |-> memo, events |-> <<"request:markets">>]
    ELSE LET built == [built |-> TRUE, sizes |-> mresp.markets]
         IN  [raised |-> Lookup(built, market).raised,
              value |-> Lookup(built, market).value,
              memo |-> built, events |-> <<"request:markets">>]

\* ExchangeAPI.validate_minimum_trade_size: market_coin is no name of the
\* function or the module, so building the MinimumTradeSizeError raises
\* NameError
validate_minimum_trade_size(b, memo, market, quantity, rate, mresp) ==
    LET m == minimum_trade_size(b, memo, market, mresp)
    IN  [raised |-> IF m.raised # "none" THEN m.raised
                    ELSE IF quantity < m.value THEN "NameError"
                    ELSE "none",
         memo |-> m.memo,
         events |-> <<"validate_minimum_trade_size">> \o m.events]

\* ---- order payloads and their normalization ----

WithFillFlags_from_open(order) ==
    [order EXCEPT
        !.is_filled = ~order.is_open,
        !.is_partially_filled = (order.is_open
                                   /\ order.quantity_remaining < order.quantity)]

\* the flags every __parse_order sets last
WithFillFlags(order) ==
    [order EXCEPT
        !.is_filled = (order.quantity_remaining = 0),
        !.is_partially_filled = (order.quantity_remaining > 0
                                   /\ order.quantity_remaining < order.quantity)]

\* a binance order body: side, type, origQty, executedQty, price, status
BinanceOrders ==
    [side : {"BUY", "SELL"}, type : {"LIMIT"}, origQty : 1..MaxQty,
     executedQty : 0..(MaxQty + 1), price : {LimitRate},
     status : {"NEW", "PARTIALLY_FILLED", "FILLED"}]

\* the bodies drawn for a list answer
BinanceListOrders ==
    {o \in BinanceOrders :
        /\ o.side = "SELL"
        /\ o.origQty = MaxQty
        /\ o.executedQty \in {0, 1, MaxQty + 1}}

\* 'SELL' in token, 'BUY' in token, 'LIMIT' in token, 'MARKET' in token
Contains(token, literal) ==
    CASE literal = "SELL" -> token \in {"SELL", "LIMIT_SELL"}
      [] literal = "BUY" -> token \in {"BUY", "LIMIT_BUY"}
      [] literal = "LIMIT" -> token \in {"LIMIT", "LIMIT_BUY", "LIMIT_SELL"}
      [] literal = "MARKET" -> token \in {"MARKET"}

NoOrder ==
    [buy_or_sell |-> "", order_type |-> "", exchange |-> "", market |-> "",
     base_coin |-> "", market_coin |-> "", quantity |-> 0,
     quantity_remaining |-> 0, rate |-> 0, price |-> 0, is_open |-> FALSE,
     is_filled |-> FALSE, is_partially_filled |-> FALSE]

\* BinanceAPI.__parse_order(market, order)
binance_parse_order(b, market, order) ==
    LET buy_or_sell == IF Contains(order.side, "SELL") THEN "sell"
                       ELSE IF Contains(order.side, "BUY") THEN "buy"
                       ELSE "None"
        order_type == IF Contains(order.type, "LIMIT") THEN "limit"
                      ELSE IF Contains(order.type, "MARKET") THEN "market"
                      ELSE "None"
        quantity == order.origQty
        quantity_remaining == quantity - order.executedQty
        rate == order.price
        price == price_with_fee(b, buy_or_sell, quantity * rate,
                                base_coin_of(market), DefaultPrecision)
    IN  IF buy_or_sell = "None" \/ order_type = "None"
        THEN [raised |-> "ValueError", value |-> NoOrder]
        ELSE [raised |-> "none",
              value |-> WithFillFlags(
                  [buy_or_sell |-> buy_or_sell, order_type |-> order_type,
                   exchange |-> b, market |-> market,
                   base_coin |-> base_coin_of(market),
                   market_coin |-> market_coin_of(market),
                   quantity |-> quantity,
                   quantity_remaining |-> quantity_remaining,
                   rate |-> rate, price |-> price.value,
                   is_open |-> (order.status \in {"NEW", "PARTIALLY_FILLED"}),
                   is_filled |-> FALSE, is_partially_filled |-> FALSE])]

\* a bittrex order body.  A number 0 in PricePerUnit, Rate, Limit or Price
\* stands for a key that is absent, null or zero; BuyOrSell, IsOpen and
\* QuantityRemaining are keys that may be absent.
BittrexOrders ==
    [OrderType : {"LIMIT_BUY", "LIMIT_SELL"}, has_BuyOrSell : {FALSE},
     BuyOrSell : {""}, Quantity : 1..MaxQty,
     has_QuantityRemaining : {TRUE}, QuantityRemaining : 0..(MaxQty + 1),
     Exchange : {"USDT-BTC"}, PricePerUnit : {0}, Rate : {0},
     Limit : {0, LimitRate}, Price : {0, PaidPrice},
     has_IsOpen : {TRUE}, IsOpen : BOOLEAN]
    \cup
    [OrderType : {"LIMIT"}, has_BuyOrSell : {TRUE},
     BuyOrSell : {"Buy", "Sell", "Hold"}, Quantity : 1..MaxQty,
     has_QuantityRemaining : {FALSE}, QuantityRemaining : {0},
     Exchange : {"USDT-BTC"}, PricePerUnit : {0}, Rate : {LimitRate},
     Limit : {0}, Price : {0},
     has_IsOpen : {FALSE}, IsOpen : {FALSE}]

\* the bodies drawn for a list answer
BittrexListOrders ==
    [OrderType : {"LIMIT_SELL"}, has_BuyOrSell : {FALSE},
     BuyOrSell : {""}, Quantity : {MaxQty},
     has_QuantityRemaining : {TRUE}, QuantityRemaining : {0, 1, MaxQty + 1},
     Exchange : Markets, PricePerUnit : {0}, Rate : {0},
     Limit : {LimitRate}, Price : {0},
     has_IsOpen : {TRUE}, IsOpen : BOOLEAN]

\* str.lower() of the BuyOrSell values
Lower(token) ==
    CASE token = "Buy" -> "buy"
      [] token = "Sell" -> "sell"
      [] token = "Hold" -> "hold"
      [] OTHER -> token

\* BittrexAPI.__parse_order(order)
bittrex_parse_order(b, order) ==
    LET buy_or_sell == IF order.has_BuyOrSell THEN Lower(order.BuyOrSell)
                       ELSE IF Contains(order.OrderType, "SELL") THEN "sell"
                       ELSE IF Contains(order.OrderType, "BUY") THEN "buy"
                       ELSE "None"
        order_type == IF Contains(order.OrderType, "LIMIT") THEN "limit"
                      ELSE IF Contains(order.OrderType, "MARKET") THEN "market"
                      ELSE "None"
        quantity == order.Quantity
        market == order.Exchange
        rate == IF order.PricePerUnit # 0 THEN order.PricePerUnit
                ELSE IF order.Rate # 0 THEN order.Rate
                ELSE IF order.Limit # 0 THEN order.Limit
                ELSE IF order.Price # 0 THEN order.Price \div order.Quantity
                ELSE 0
        rate_known == order.PricePerUnit # 0 \/ order.Rate # 0
                        \/ order.Limit # 0 \/ order.Price # 0
        f == fee(b, quantity * rate, base_coin_of(market))
        price == IF order.Price > 0 THEN order.Price
                 ELSE RoundAt("ceil",
                              quantity * rate
                                + (IF buy_or_sell = "sell" THEN f * (-1) ELSE f),
                              BittrexPrecision)
    IN  IF buy_or_sell = "None" \/ order_type = "None" \/ ~rate_known
        THEN [raised |-> "ValueError", value |-> NoOrder]
        ELSE [raised |-> "none",
              value |-> WithFillFlags(
                  [buy_or_sell |-> buy_or_sell, order_type |-> order_type,
                   exchange |-> b, market |-> market,
                   base_coin |-> base_coin_of(market),
                   market_coin |-> market_coin_of(market),
                   quantity |-> quantity,
                   quantity_remaining |-> IF order.has_QuantityRemaining
                                          THEN order.QuantityRemaining
                                          ELSE quantity,
                   rate |-> rate, price |-> price,
                   is_open |-> (order.has_IsOpen /\ order.IsOpen),
                   is_filled |-> FALSE, is_partially_filled |-> FALSE])]

\* ---- the calls ----

PlacementOps == {"ask", "ask_when_less_than", "bid", "bid_when_greater_than"}

\* the condition_type each placement operation passes on bittrex
condition_type_of(op) ==
    CASE op = "ask_when_less_than" -> "LESS_THAN"
      [] op = "bid_when_greater_than" -> "GREATER_THAN"
      [] OTHER -> "NONE"

Result(raised, kind, value, memo, ev) ==
    [raised |-> raised, kind |-> kind, value |-> value, memo |-> memo,
     events |-> ev]

\* BittrexAPI.ask / ask_when_less_than / bid / bid_when_greater_than through
\* __bittrex_ask / __bittrex_bid and __bittrex_validate_trade_params
bittrex_place(b, memo, op, market, quantity, rate, target, mresp, status, body) ==
    LET v == validate_minimum_trade_size(b, memo, market, quantity, rate, mresp)
        sent == v.events \o <<"request:place">>
        parsed == bittrex_parse_order(b, body)
    IN  IF v.raised # "none"
        THEN Result(v.raised, "none", <<>>, v.memo, v.events)
        ELSE IF condition_type_of(op) # "NONE" /\ target <= 0
        THEN Result("ValueError", "none", <<>>, v.memo, v.events)
        ELSE IF request_raises(b, status) # "none"
        THEN Result(request_raises(b, status), "none", <<>>, v.memo, sent)
        ELSE IF parsed.raised # "none"
        THEN Result(parsed.raised, "none", <<>>, v.memo, sent)
        ELSE Result("none", "order",
                    <<[parsed.value EXCEPT !.is_open = TRUE]>>, v.memo, sent)

\* BinanceAPI.ask / ask_when_less_than / bid / bid_when_greater_than: the
\* request, then self.__parse_order(response) without its market argument
binance_place(b, memo, status) ==
    IF request_raises(b, status) # "none"
    THEN Result(request_raises(b, status), "none", <<>>, memo,
                <<"request:place">>)
    ELSE Result("TypeError", "none", <<>>, memo, <<"request:place">>)

\* HitbtcAPI: every order operation raises NotImplementedError
hitbtc_call(memo) == Result("NotImplementedError", "none", <<>>, memo, <<>>)

place(b, memo, op, market, quantity, rate, target, mresp, status, body) ==
    CASE b = "bittrex" ->
           bittrex_place(b, memo, op, market, quantity, rate, target, mresp,
                         status, body)
      [] b = "binance" -> binance_place(b, memo, status)
      [] b = "hitbtc" -> hitbtc_call(memo)

\* [f(x) for x in bodies]: the first exception ends the comprehension
ParseAll(parsed, memo, ev) ==
    IF \E i \in 1..Len(parsed) : parsed[i].raised # "none"
    THEN Result("ValueError", "none", <<>>, memo, ev)
    ELSE Result("none", "orders",
                [i \in 1..Len(parsed) |-> parsed[i].value], memo, ev)

\* order(market, order_id)
order(b, memo, market, status, bodies) ==
    LET ev == <<"request:fetch">>
    IN  CASE b = "hitbtc" -> hitbtc_call(memo)
          [] b = "bittrex" ->
               IF request_raises(b, status) # "none"
               THEN Result(request_raises(b, status), "none", <<>>, memo, ev)
               ELSE IF bodies = <<>>
               THEN Result("none", "none", <<>>, memo, ev)
               ELSE IF bittrex_parse_order(b, bodies[1]).raised # "none"
               THEN Result("ValueError", "none", <<>>, memo, ev)
               ELSE Result("none", "order",
                           <<bittrex_parse_order(b, bodies[1]).value>>, memo, ev)
          [] b = "binance" ->
               IF request_raises(b, status) # "none"
               THEN Result(request_raises(b, status), "none", <<>>, memo, ev)
               ELSE IF bodies = <<>>
               THEN Result("IndexError", "none", <<>>, memo, ev)
               ELSE IF binance_parse_order(b, market, bodies[1]).raised # "none"
               THEN Result("ValueError", "none", <<>>, memo, ev)
               ELSE Result("none", "order",
                           <<binance_parse_order(b, market, bodies[1]).value>>,
                           memo, ev)

\* open_orders(market); on binance '...'.fomrat(symbol) raises AttributeError
\* before any request
open_orders(b, memo, market, status, bodies) ==
    LET ev == <<"request:fetch">>
        parsed == [i \in 1..Len(bodies) |-> bittrex_parse_order(b, bodies[i])]
    IN  CASE b = "hitbtc" -> hitbtc_call(memo)
          [] b = "binance" -> Result("AttributeError", "none", <<>>, memo, <<>>)
          [] b = "bittrex" ->
               IF request_raises(b, status) # "none"
               THEN Result(request_raises(b, status), "none", <<>>, memo, ev)
               ELSE ParseAll(parsed, memo, ev)

BittrexInMarket(market, bodies) ==
    LET Test(body) == body.Exchange = market
    IN  SelectSeq(bodies, Test)

BinanceClosed(bodies) ==
    LET Test(body) == body.status \notin {"NEW", "PARTIALLY_FILLED"}
    IN  SelectSeq(bodies, Test)

\* order_history(market)
order_history(b, memo, market, status, bodies) ==
    LET ev == <<"request:fetch">>
        kept == IF b = "bittrex" THEN BittrexInMarket(market, bodies)
                ELSE BinanceClosed(bodies)
        parsed == [i \in 1..Len(kept) |->
                      IF b = "bittrex" THEN bittrex_parse_order(b, kept[i])
                      ELSE binance_parse_order(b, market, kept[i])]
    IN  CASE b = "hitbtc" -> hitbtc_call(memo)
          [] b = "bittrex" ->
               IF request_raises(b, status) # "none"
               THEN Result(request_raises(b, status), "none", <<>>, memo, ev)
               ELSE ParseAll(parsed, memo, ev)
          [] b = "binance" ->
               IF request_raises(b, status) # "none"
               THEN Result(request_raises(b, status), "none", <<>>, memo, ev)
               ELSE ParseAll(parsed, memo, ev)

\* ---- orderbook(market) ----

\* minimum_length=10, the default validate_orderbook is called with
DefaultMinimumLength == 10

\* side lengths of an order-book answer: empty, one short of the default
\* minimum, and the default minimum
BookLens == {0, DefaultMinimumLength - 1, DefaultMinimumLength}

\* a side of n entries at rate first, the last one at rate last; with hole = 1
\* the first entry lacks its quantity
RawSide(n, first, last, hole) ==
    [i \in 1..n |-> [has_quantity |-> (hole # i), has_rate |-> TRUE,
                     rate |-> IF i = n THEN last ELSE first]]

RawSides ==
    {RawSide(n, first, last, hole) :
        n \in BookLens, first \in Rates, last \in Rates, hole \in {0, 1}}

\* the body of an order-book answer: null, or an object that may lack the key
\* of a side (buy and sell on bittrex, bids and asks on binance); an entry is
\* an object with Quantity and Rate on bittrex, a list [rate, quantity] on
\* binance
RawBooks ==
    {[is_none |-> TRUE, has_buy |-> FALSE, has_sell |-> FALSE,
      buy |-> <<>>, sell |-> <<>>]}
    \cup [is_none : {FALSE}, has_buy : {TRUE}, has_sell : {TRUE},
          buy : RawSides, sell : RawSides]
    \cup [is_none : {FALSE}, has_buy : {FALSE}, has_sell : {TRUE},
          buy : {<<>>}, sell : RawSides]
    \cup [is_none : {FALSE}, has_buy : {TRUE}, has_sell : {FALSE},
          buy : RawSides, sell : {<<>>}]

NoBook ==
    [is_none |-> TRUE, has_buy |-> FALSE, has_sell |-> FALSE,
     buy |-> <<>>, sell |-> <<>>]

\* the entries {'quantity': ..., 'rate': ...} built from the entries of a side
Renamed(side) ==
    [i \in 1..Len(side) |->
        [has_quantity |-> TRUE, has_rate |-> TRUE, rate |-> side[i].rate]]

\* the loops of BinanceAPI.orderbook over response['bids'] and
\* response['asks']: float(item[1]) raises IndexError on a short entry
binance_orderbook_result(response) ==
    IF response.is_none THEN [raised |-> "TypeError", value |-> NoBook]
    ELSE IF ~response.has_buy THEN [raised |-> "KeyError", value |-> NoBook]
    ELSE IF Incomplete(response.buy)
         THEN [raised |-> "IndexError", value |-> NoBook]
    ELSE IF ~response.has_sell THEN [raised |-> "KeyError", value |-> NoBook]
    ELSE IF Incomplete(response.sell)
         THEN [raised |-> "IndexError", value |-> NoBook]
    ELSE [raised |-> "none",
          value |-> [is_none |-> FALSE, has_buy |-> TRUE, has_sell |-> TRUE,
                     buy |-> Renamed(response.buy),
                     sell |-> Renamed(response.sell)]]

\* the loops of BittrexAPI.orderbook over result['buy'] and result['sell']:
\* item.pop('Quantity') raises KeyError on an entry without the key
bittrex_orderbook_result(response) ==
    IF response.is_none THEN [raised |-> "TypeError", value |-> NoBook]
    ELSE IF ~response.has_buy THEN [raised |-> "KeyError", value |-> NoBook]
    ELSE IF Incomplete(response.buy)
         THEN [raised |-> "KeyError", value |-> NoBook]
    ELSE IF ~response.has_sell THEN [raised |-> "KeyError", value |-> NoBook]
    ELSE IF Incomplete(response.sell)
         THEN [raised |-> "KeyError", value |-> NoBook]
    ELSE [raised |-> "none",
          value |-> [response EXCEPT !.buy = Renamed(response.buy),
                                     !.sell = Renamed(response.sell)]]

orderbook_result(b, response) ==
    IF b = "bittrex" THEN bittrex_orderbook_result(response)
    ELSE binance_orderbook_result(response)

orderbook_unvalidated(b, memo, market, status, response) ==
    LET ev == <<"request:orderbook">>
        result == orderbook_result(b, response)
    IN  IF b = "hitbtc" THEN hitbtc_call(memo)
        ELSE IF b = "bittrex"
        THEN Result("MissingSchema", "none", <<>>, memo, <<>>)
        ELSE IF request_raises(b, status) # "none"
        THEN Result(request_raises(b, status), "none", <<>>, memo, ev)
        ELSE IF result.raised # "none"
        THEN Result(result.raised, "none", <<>>, memo, ev)
        ELSE Result("none", "orderbook", <<result.value>>, memo, ev)

\* BinanceAPI.orderbook, BittrexAPI.orderbook, HitbtcAPI.orderbook: the
\* request, the result built from the answer, self.validate_orderbook(result)
\* and return result
\* BittrexAPI.orderbook passes request() a URL that starts with /api/ and
\* request() prepends no host (unlike BinanceAPI.request), so the HTTP
\* library raises MissingSchema before anything is sent
orderbook(b, memo, market, status, response) ==
    LET ev == <<"request:orderbook">>
        result == orderbook_result(b, response)
    IN  IF b = "hitbtc" THEN hitbtc_call(memo)
        ELSE IF b = "bittrex"
        THEN Result("MissingSchema", "none", <<>>, memo, <<>>)
        ELSE IF request_raises(b, status) # "none"
        THEN Result(request_raises(b, status), "none", <<>>, memo, ev)
        ELSE IF result.raised # "none"
        THEN Result(result.raised, "none", <<>>, memo, ev)
        ELSE IF validate_orderbook(result.value, DefaultMinimumLength) # "none"
        THEN Result(validate_orderbook(result.value, DefaultMinimumLength),
                    "none", <<>>, memo, ev)
        ELSE Result("none", "orderbook", <<result.value>>, memo, ev)

\* ---- wallet(currency=None) ----

\* the largest pending and the largest available amount of an answer
MaxAmount == 1

Coins == {"BTC", "XMR"}

\* currency=None
NoCurrency == ""

\* a balance of an answer: asset, locked and free on binance; Currency,
\* Pending, Available and Balance on bittrex (balance is not read on binance)
RawBalances(coin) ==
    [name : {coin}, pending : 0..MaxAmount, available : 0..MaxAmount,
     balance : 0..(2 * MaxAmount)]

AnyRawBalance == UNION {RawBalances(coin) : coin \in Coins}

\* the balances of an answer: at most one per coin
WalletResponses ==
    {<<>>} \cup {<<x>> : x \in AnyRawBalance}
            \cup {<<x, y>> : x \in RawBalances("BTC"), y \in RawBalances("XMR")}

\* BinanceAPI.__parse_wallet_item
binance_parse_wallet_item(item) ==
    [name |-> item.name, pending |-> item.pending,
     available |-> item.available, balance |-> item.pending + item.available]

\* BittrexAPI.__parse_wallet_item
bittrex_parse_wallet_item(item) ==
    [name |-> item.name, balance |-> item.balance, pending |-> item.pending,
     available |-> item.available]

binance_wallet_retry(memo, currency, status, response) ==
    LET ev == <<"request:wallet">>
        IsCurrency(item) == item.name = currency
        Held(item) == item.pending + item.available > 0
        found == SelectSeq(response, IsCurrency)
        held == SelectSeq(response, Held)
    IN  IF request_raises("binance", status) # "none"
        THEN Result(request_raises("binance", status), "none", <<>>, memo,
                    ev \o ev)
        ELSE IF currency # NoCurrency
        THEN IF found = <<>>
             THEN Result("StopIteration", "none", <<>>, memo, ev)
             ELSE Result("none", "dict",
                         <<binance_parse_wallet_item(found[1])>>, memo, ev)
        ELSE Result("none", "list",
                    [i \in 1..Len(held) |-> binance_parse_wallet_item(held[i])],
                    memo, ev)

\* BinanceAPI.wallet: next(...) over the balances of the asset, or the list
\* of the balances with locked + free > 0
binance_wallet(memo, currency, status, response) ==
    LET ev == <<"request:wallet">>
        IsCurrency(item) == item.name = currency
        Held(item) == item.pending + item.available > 0
        found == SelectSeq(response, IsCurrency)
        held == SelectSeq(response, Held)
    IN  IF request_raises("binance", status) # "none"
        THEN Result(request_raises("binance", status), "none", <<>>, memo, ev)
        ELSE IF currency # NoCurrency
        THEN IF found = <<>>
             THEN Result("StopIteration", "none", <<>>, memo, ev)
             ELSE Result("none", "dict",
                         <<binance_parse_wallet_item(found[1])>>, memo, ev)
        ELSE Result("none", "list",
                    [i \in 1..Len(held) |-> binance_parse_wallet_item(held[i])],
                    memo, ev)

\* BittrexAPI.wallet: the list of the balances with Balance > 0, or a list
\* holding the one balance the answer is
bittrex_wallet(memo, currency, status, response) ==
    LET ev == <<"request:wallet">>
        Held(item) == item.balance > 0
        held == SelectSeq(response, Held)
    IN  IF request_raises("bittrex", status) # "none"
        THEN Result(request_raises("bittrex", status), "none", <<>>, memo, ev)
        ELSE IF currency = NoCurrency
        THEN Result("none", "list",
                    [i \in 1..Len(held) |-> bittrex_parse_wallet_item(held[i])],
                    memo, ev)
        ELSE Result("none", "list",
                    <<bittrex_parse_wallet_item(response[1])>>, memo, ev)

\* wallet(currency=None); the value is a dict (kind "dict", held as the one
\* element of value) or a list of dicts (kind "list")
wallet(b, memo, currency, status, response) ==
    CASE b = "hitbtc" -> hitbtc_call(memo)
      [] b = "bittrex" -> bittrex_wallet(memo, currency, status, response)
      [] b = "binance" -> binance_wallet(memo, currency, status, response)

\* the answers to wallet(currency): the account's balances on binance, the
\* balance of the currency on bittrex
WalletAnswers(b, currency) ==
    IF b = "bittrex" /\ currency # NoCurrency
    THEN {<<x>> : x \in RawBalances(currency)}
    ELSE WalletResponses

\* ---- the session: one backend API instance, one call at a time ----

Quantities == 0..MaxQty
Targets == {0, 1}

SeqsUpTo(S, n) == UNION {[1..k -> S] : k \in 0..n}

\* the order body of a placement answer (read on bittrex only)
PlaceBodies(b) ==
    IF b = "bittrex" THEN BittrexOrders ELSE {NoOrder}

\* the answer to a single-order query
OneBodies(b) ==
    CASE b = "bittrex" -> SeqsUpTo(BittrexOrders, 1)
      [] b = "binance" -> SeqsUpTo(BinanceOrders, 1)
      [] OTHER -> {<<>>}

\* the answer to a list query
ListBodies(b) ==
    CASE b = "bittrex" -> SeqsUpTo(BittrexListOrders, MaxOrders)
      [] b = "binance" -> SeqsUpTo(BinanceListOrders, MaxOrders)
      [] OTHER -> {<<>>}

Init ==
    /\ backend \in Backends
    /\ pricing = Idle
    /\ book = Idle
    /\ minimum_trade_sizes = NoMemo
    /\ call = Idle
    /\ events = <<>>
    /\ outcome = Idle
    /\ classes = Idle
    /\ exchanges = Idle

Finish(op, market, quantity, rate, target, r) ==
    /\ call' = [pc |-> "returned", op |-> op, market |-> market,
                quantity |-> quantity, rate |-> rate, target_rate |-> target]
    /\ events' = r.events
    /\ outcome' = [raised |-> r.raised, kind |-> r.kind, value |-> r.value]
    /\ minimum_trade_sizes' = r.memo
    /\ UNCHANGED <<backend, pricing, book, classes, exchanges>>

Placement(op, targets) ==
    /\ call = Idle
    /\ \E market \in Markets, quantity \in Quantities, target \in targets,
          mresp \in MarketsResponses, status \in Statuses,
          body \in PlaceBodies(backend) :
          Finish(op, market, quantity, LimitRate, target,
                 place(backend, minimum_trade_sizes, op, market, quantity,
                       LimitRate, target, mresp, status, body))

Ask == Placement("ask", {0})

AskWhenLessThan == Placement("ask_when_less_than", Targets)

Bid == Placement("bid", {0})

BidWhenGreaterThan == Placement("bid_when_greater_than", Targets)

Order ==
    /\ call = Idle
    /\ \E market \in Markets, status \in Statuses, bodies \in OneBodies(backend) :
          Finish("order", market, 0, 0, 0,
                 order(backend, minimum_trade_sizes, market, status, bodies))

OpenOrders ==
    /\ call = Idle
    /\ \E market \in Markets, status \in Statuses, bodies \in ListBodies(backend) :
          Finish("open_orders", market, 0, 0, 0,
                 open_orders(backend, minimum_trade_sizes, market, status, bodies))

OrderHistory ==
    /\ call = Idle
    /\ \E market \in Markets, status \in Statuses, bodies \in ListBodies(backend) :
          Finish("order_history", market, 0, 0, 0,
                 order_history(backend, minimum_trade_sizes, market, status, bodies))

Orderbook ==
    /\ call = Idle
    /\ \E market \in Markets, status \in Statuses, response \in RawBooks :
          LET r == orderbook(backend, minimum_trade_sizes, market, status,
                             response)
          IN  /\ call' = [pc |-> "returned", op |-> "orderbook",
                          market |-> market, status |-> status,
                          response |-> response]
              /\ events' = r.events
              /\ outcome' = [raised |-> r.raised, kind |-> r.kind,
                             value |-> r.value]
              /\ minimum_trade_sizes' = r.memo
              /\ UNCHANGED <<backend, pricing, book, classes, exchanges>>

\* the exceptions the command layer catches: ExchangeError and its subclass
ExchangeErrors == {"ExchangeError", "MinimumTradeSizeError"}

\* the operations ExchangeCLI declares as commands and the model covers
CliCommands ==
    {"ask", "bid", "order", "order_history", "open_orders", "orderbook"}

\* what the command line holds: nothing, something the parser rejects, or a
\* command with its arguments
Argvs == {"empty", "invalid", "command"}

exchange_cli_catch_none(raised) ==
    IF raised = "none" THEN [exit_code |-> 0, caught |-> FALSE]
    ELSE [exit_code |-> 1, caught |-> FALSE]

exchange_cli_catch_all(raised) ==
    IF raised = "none" THEN [exit_code |-> 0, caught |-> FALSE]
    ELSE [exit_code |-> 1, caught |-> TRUE]

\* try: cmd(self, ...) / except ExchangeError: print(e); exit(1).  Any other
\* exception leaves __init__ uncaught and the interpreter ends with status 1;
\* a command that returns lets the process end with status 0.
exchange_cli_exit(raised) ==
    IF raised \in ExchangeErrors THEN [exit_code |-> 1, caught |-> TRUE]
    ELSE IF raised = "none" THEN [exit_code |-> 0, caught |-> FALSE]
    ELSE [exit_code |-> 1, caught |-> FALSE]

\* no command runs: without arguments the help is printed and exit() leaves
\* with status 0; arguments the parser rejects leave with status 2
parser_exit(argv) ==
    [exit_code |-> IF argv = "empty" THEN 0 ELSE 2, caught |-> FALSE]

Wallet ==
    /\ call = Idle
    /\ \E currency \in Coins \cup {NoCurrency}, status \in Statuses :
          \E response \in WalletAnswers(backend, currency) :
              LET r == wallet(backend, minimum_trade_sizes, currency, status,
                              response)
              IN  /\ call' = [pc |-> "returned", op |-> "wallet",
                              currency |-> currency, status |-> status,
                              response |-> response]
                  /\ events' = r.events
                  /\ outcome' = [raised |-> r.raised, kind |-> r.kind,
                                 value |-> r.value]
                  /\ minimum_trade_sizes' = r.memo
                  /\ UNCHANGED <<backend, pricing, book, classes, exchanges>>

\* the record of a call of an operation on orders
OrdersCall(op, market, quantity, rate) ==
    [pc |-> "exited", op |-> op, market |-> market, quantity |-> quantity,
     rate |-> rate, target_rate |-> 0]

\* the process ends: the command's result and the exit status
Leave(c, r, e) ==
    /\ call' = c
    /\ events' = r.events
    /\ outcome' = [raised |-> r.raised, kind |-> r.kind, value |-> r.value,
                   exit_code |-> e.exit_code, caught |-> e.caught]
    /\ minimum_trade_sizes' = r.memo
    /\ UNCHANGED <<backend, pricing, book, classes, exchanges>>

Exit(c, r) == Leave(c, r, exchange_cli_exit(r.raised))

\* one run of an exchange's command line: parse, create the API instance,
\* run the command, leave
ExchangeCLI ==
    /\ call = Idle
    /\ minimum_trade_sizes = NoMemo
    /\ \E argv \in Argvs :
          \/ /\ argv # "command"
             /\ Leave(OrdersCall("none", "", 0, 0),
                      Result("SystemExit", "none", <<>>, NoMemo, <<>>),
                      parser_exit(argv))
          \/ /\ argv = "command"
             /\ \E op \in CliCommands, market \in Markets,
                   status \in Statuses :
                   \/ /\ op \in {"ask", "bid"}
                      /\ \E quantity \in Quantities,
                            mresp \in MarketsResponses,
                            body \in PlaceBodies(backend) :
                            Exit(OrdersCall(op, market, quantity, LimitRate),
                                 place(backend, NoMemo, op, market, quantity,
                                       LimitRate, 0, mresp, status, body))
                   \/ /\ op = "order"
                      /\ \E bodies \in OneBodies(backend) :
                            Exit(OrdersCall(op, market, 0, 0),
                                 order(backend, NoMemo, market, status,
                                       bodies))
                   \/ /\ op = "open_orders"
                      /\ \E bodies \in ListBodies(backend) :
                            Exit(OrdersCall(op, market, 0, 0),
                                 open_orders(backend, NoMemo, market, status,
                                             bodies))
                   \/ /\ op = "order_history"
                      /\ \E bodies \in ListBodies(backend) :
                            Exit(OrdersCall(op, market, 0, 0),
                                 order_history(backend, NoMemo, market,
                                               status, bodies))
                   \/ /\ op = "orderbook"
                      /\ \E response \in RawBooks :
                            Exit([pc |-> "exited", op |-> op,
                                  market |-> market, status |-> status,
                                  response |-> response],
                                 orderbook(backend, NoMemo, market, status,
                                           response))

\* the caller takes the result; the instance and its memo stay.  A process
\* that has exited takes no further step.
Return ==
    /\ call # Idle
    /\ call.pc # "exited"
    /\ call' = Idle
    /\ events' = <<>>
    /\ outcome' = Idle
    /\ UNCHANGED <<backend, pricing, book, minimum_trade_sizes, classes,
                   exchanges>>

Next ==
    \/ Ask
    \/ AskWhenLessThan
    \/ Bid
    \/ BidWhenGreaterThan
    \/ Order
    \/ OpenOrders
    \/ OrderHistory
    \/ Orderbook
    \/ Wallet
    \/ ExchangeCLI
    \/ Return

Spec == Init /\ [][Next]_vars

IsPlacement == call # Idle /\ call.op \in PlacementOps

Issued(kind) == \E i \in 1..Len(events) : events[i] = kind

OrdersReturned ==
    IF call # Idle /\ outcome.raised = "none"
         /\ outcome.kind \in {"order", "orders"}
    THEN {outcome.value[i] : i \in 1..Len(outcome.value)}
    ELSE {}

\* C1: in every order-placement call, on every backend, the order-placement
\* request is issued only after validate_minimum_trade_size has run
C1_ValidatedBeforeRequest ==
    IsPlacement =>
        \A i \in 1..Len(events) :
            events[i] = "request:place" =>
                \E j \in 1..(i - 1) : events[j] = "validate_minimum_trade_size"

\* the requested quantity is below the minimum trade size the backend holds
\* for the market
BelowMinimum ==
    /\ IsPlacement
    /\ minimum_trade_sizes.built
    /\ minimum_trade_sizes.sizes[call.market].listed
    /\ call.quantity < minimum_trade_sizes.sizes[call.market].size

\* C2: an order-placement call with a quantity below the market's minimum
\* trade size ends in MinimumTradeSizeError and issues no order-placement
\* request
C2_BelowMinimumRaises ==
    BelowMinimum =>
        /\ outcome.raised = "MinimumTradeSizeError"
        /\ ~Issued("request:place")

\* C7: every normalized order a call returns has is_filled exactly when
\* quantity_remaining = 0 and is_partially_filled exactly when
\* 0 < quantity_remaining < quantity
C7_FillFlags ==
    \A o \in OrdersReturned :
        /\ o.is_filled <=> (o.quantity_remaining = 0)
        /\ o.is_partially_filled <=>
               (0 < o.quantity_remaining /\ o.quantity_remaining < o.quantity)

C7_Witness ==
    /\ call # Idle
    /\ call.op = "order_history"
    /\ outcome.raised = "none"
    /\ Len(outcome.value) = 2
    /\ outcome.value[1].is_filled
    /\ ~outcome.value[1].is_open
    /\ outcome.value[2].is_partially_filled
    /\ ~outcome.value[2].is_filled
    /\ ~outcome.value[2].is_open

\* C8: every normalized order a call returns has
\* 0 <= quantity_remaining <= quantity
C8_RemainingWithinQuantity ==
    \A o \in OrdersReturned :
        0 <= o.quantity_remaining /\ o.quantity_remaining <= o.quantity

IsOrderbookCall == call # Idle /\ call.op = "orderbook"

\* C11: an order book returned by orderbook(market) has passed
\* validate_orderbook; where the answer cannot be turned into an order book
\* or validate_orderbook rejects it, the call raises and returns nothing
C11_OrderbookValidated ==
    IsOrderbookCall =>
        /\ outcome.raised = "none" =>
              /\ outcome.kind = "orderbook"
              /\ Len(outcome.value) = 1
              /\ validate_orderbook(outcome.value[1], DefaultMinimumLength)
                    = "none"
        /\ (\/ orderbook_result(backend, call.response).raised # "none"
            \/ validate_orderbook(orderbook_result(backend, call.response).value,
                                  DefaultMinimumLength) # "none") =>
              /\ outcome.raised # "none"
              /\ outcome.value = <<>>

\* a full order book came back
C11_Witness ==
    /\ IsOrderbookCall
    /\ outcome.raised = "none"
    /\ Len(outcome.value[1].buy) = DefaultMinimumLength
    /\ Len(outcome.value[1].sell) = DefaultMinimumLength

\* the exchange answered the order-placement request and the answer was not
\* turned down as an error answer or as an order that cannot be parsed
PlacementAnswered ==
    /\ IsPlacement
    /\ Issued("request:place")
    /\ outcome.raised \notin {"HTTPError", "ExchangeError", "ValueError"}

\* C12: an order-placement call (ask, bid, ask_when_less_than,
\* bid_when_greater_than) that placed its order returns a normalized order
\* whose is_open is true, whatever state the answer reported
C12_PlacedOrderIsOpen ==
    PlacementAnswered =>
        /\ outcome.raised = "none"
        /\ outcome.kind = "order"
        /\ outcome.value[1].is_open

IsHistoryCall == call # Idle /\ call.op = "order_history"

\* C13: no order returned by order_history(market) has is_open true
C13_HistoryClosed ==
    IsHistoryCall => \A o \in OrdersReturned : ~o.is_open

\* C26: every normalized order a call returns has buy_or_sell in
\* {buy, sell}; a payload whose side token matches neither BUY nor SELL ends
\* in an error and yields no order
C26_SideIsBuyOrSell ==
    \A o \in OrdersReturned : o.buy_or_sell \in {"buy", "sell"}

\* the fee-adjusted pricing rule applied to quantity * rate of an order
RulePrice(o) ==
    price_with_fee(o.exchange, o.buy_or_sell, o.quantity * o.rate,
                   o.base_coin, DefaultPrecision).value

\* C27: the price of every normalized order of side buy or sell is the
\* positive cash amount of the payload, or else the pricing rule applied to
\* quantity * rate: the fee subtracted and rounded down for a sell, added and
\* rounded up for a buy, at 8 decimal digits
C27_PriceRule ==
    \A o \in OrdersReturned :
        o.buy_or_sell \in {"buy", "sell"} =>
            (o.price = PaidPrice \/ o.price = RulePrice(o))

\* the outbound requests of the call, in the order they were issued
RequestEvents ==
    {"request:markets", "request:place", "request:fetch", "request:orderbook",
     "request:wallet"}

Requests ==
    LET IsRequest(e) == e \in RequestEvents
    IN  SelectSeq(events, IsRequest)

\* what a failing request raises: the transport failure, or the error of an
\* answer the service marks unsuccessful
RequestErrors == {"HTTPError", "ExchangeError"}

WalletEntries ==
    IF call # Idle /\ call.op = "wallet" /\ outcome.raised = "none"
    THEN {outcome.value[i] : i \in 1..Len(outcome.value)}
    ELSE {}

\* the balances of the answer whose balance, as the backend reports or
\* composes it, is not zero
NonZeroHoldings ==
    LET Held(item) ==
            IF backend = "bittrex" THEN item.balance # 0
            ELSE item.pending + item.available # 0
    IN  SelectSeq(call.response, Held)

\* C23: every wallet entry a backend's wallet() returns has
\* balance = pending + available
C23_BalanceIsSum ==
    \A e \in WalletEntries : e.balance = e.pending + e.available

\* C24: wallet(currency) returns a single entry, not a sequence, for that
\* currency, and wallet() returns a sequence of exactly the holdings whose
\* balance is not zero
C24_WalletShape ==
    (call # Idle /\ call.op = "wallet" /\ outcome.raised = "none") =>
        IF call.currency # NoCurrency
        THEN /\ outcome.kind = "dict"
             /\ outcome.value[1].name = call.currency
        ELSE /\ outcome.kind = "list"
             /\ Len(outcome.value) = Len(NonZeroHoldings)
             /\ \A i \in 1..Len(outcome.value) :
                    outcome.value[i].name = NonZeroHoldings[i].name

\* a run of the command line that invoked a command has ended
CommandRan == call.pc = "exited" /\ call.op \in CliCommands

MaxCalls == 3

\* a new instance; events is the log of the calls made on it, oldest first
InitMemo ==
    /\ backend \in Backends
    /\ pricing = Idle
    /\ book = Idle
    /\ minimum_trade_sizes = NoMemo
    /\ call = Idle
    /\ events = <<>>
    /\ outcome = Idle
    /\ classes = Idle
    /\ exchanges = Idle

\* minimum_trade_size(market), as a caller of the instance makes it
MinimumTradeSize ==
    /\ Len(events) < MaxCalls
    /\ \E market \in Markets, mresp \in MarketsResponses :
          LET r == minimum_trade_size(backend, minimum_trade_sizes, market,
                                      mresp)
          IN  /\ call' = [pc |-> "returned", op |-> "minimum_trade_size",
                          market |-> market]
              /\ outcome' = [raised |-> r.raised, kind |-> "size",
                             value |-> r.value]
              /\ minimum_trade_sizes' = r.memo
              /\ events' = Append(events,
                                  [market |-> market,
                                   fetched |-> r.events # <<>>,
                                   before |-> minimum_trade_sizes,
                                   after |-> r.memo,
                                   raised |-> r.raised, value |-> r.value])
    /\ UNCHANGED <<backend, pricing, book, classes, exchanges>>

NextMemo == MinimumTradeSize

SpecMemo == InitMemo /\ [][NextMemo]_vars

\* C25 as stated: over the calls made on one instance only the first one
\* fetches markets() and builds the mapping, and every later call returns the
\* value of the mapping the first call built
C25_FirstCallOnly ==
    \A j \in 2..Len(events) :
        /\ ~events[j].fetched
        /\ events[j].after = events[1].after
        /\ events[j].after.built

\* C25: a call made while no mapping is built fetches markets(), and builds
\* the mapping when the fetch succeeds; a call made once the mapping is built
\* does not fetch, leaves the mapping as it is and returns the value the
\* mapping built first holds for the market, and every later call finds that
\* mapping
C25_BuiltOnce ==
    \A j \in 1..Len(events) :
        /\ events[j].fetched <=> ~events[j].before.built
        /\ events[j].before.built =>
               /\ events[j].after = events[j].before
               /\ events[j].raised = Lookup(events[j].before,
                                            events[j].market).raised
               /\ events[j].value = Lookup(events[j].before,
                                           events[j].market).value
        /\ \A k \in j..Len(events) :
               events[j].after.built => events[k].after = events[j].after
        /\ j = Len(events) => events[j].after = minimum_trade_sizes

C25_Witness ==
    /\ Len(events) = MaxCalls
    /\ ~events[1].after.built
    /\ events[2].fetched /\ events[2].after.built
    /\ ~events[3].fetched /\ events[3].raised = "none"
    /\ events[3].value = events[2].after.sizes[events[3].market].size

(***************************************************************************)
(* The command registry: cli/commands.py                                   *)
(***************************************************************************)

\* the members the classes hold at most, both classes together
MaxMembers == 3

\* a base class and a class derived from it
ClassNames == {"Base", "Sub"}

\* the identifier order_history, and the same in mixed case
OrderHistoryIdent ==
    <<"o", "r", "d", "e", "r", "_", "h", "i", "s", "t", "o", "r", "y">>
MixedCaseIdent ==
    <<"O", "r", "d", "e", "r", "_", "H", "i", "s", "t", "o", "r", "y">>

\* identifiers of class members: in lower case, in mixed case, and one whose
\* derived command name is too short
Idents == {OrderHistoryIdent, MixedCaseIdent, <<"a", "b">>}

\* the name argument of @command: none, a name, a name ending in a newline, a
\* name in mixed case
ExplicitNames ==
    {<<>>,
     str_replace(OrderHistoryIdent, "_", "-"),
     str_replace(OrderHistoryIdent, "_", "-") \o <<"\n">>,
     str_replace(MixedCaseIdent, "_", "-")}

\* the names commands are looked up by
LookupNames ==
    {str_replace(OrderHistoryIdent, "_", "-"),
     OrderHistoryIdent,
     str_replace(MixedCaseIdent, "_", "-"),
     [i \in 1..Len(OrderHistoryIdent) |->
         IF InSeq(LowerLetters, OrderHistoryIdent[i])
         THEN UpperLetters[IndexIn(LowerLetters, OrderHistoryIdent[i])]
         ELSE OrderHistoryIdent[i]],
     str_replace(OrderHistoryIdent, "_", "-") \o <<"\n">>,
     <<"a", "b">>}

\* a class attribute: absent, a function (with or without __command__), or a
\* value that is not callable (a number other than zero)
Absent == [kind |-> "absent", has_command |-> FALSE, name |-> <<>>]
Members ==
    {Absent,
     [kind |-> "function", has_command |-> FALSE, name |-> <<>>],
     [kind |-> "value", has_command |-> FALSE, name |-> <<>>]}

\* a _Command instance is told apart by the function it is stored on
NoCommand == [name |-> <<>>, cls |-> "", ident |-> <<>>]
NoAttr == [found |-> FALSE, cls |-> "", ident |-> <<>>]

\* cls.__bases__, object left out
bases(cls) == IF cls = "Sub" THEN <<"Base">> ELSE <<>>

\* getattr(cls, attr) on a class or on an instance of it: the class itself,
\* then its bases
class_getattr(cls, attr) ==
    LET chain == <<cls>> \o bases(cls)
        hits == {i \in 1..Len(chain) :
                    attr \in Idents /\ classes[chain[i]][attr].kind # "absent"}
    IN  IF hits = {} THEN NoAttr
        ELSE LET first == CHOOSE i \in hits : \A j \in hits : i <= j
             IN  [found |-> TRUE, cls |-> chain[first], ident |-> attr]

\* the default name of a command: func.__name__.lower().replace('_', '-')
derived_name(ident) == str_replace(str_lower(ident), "_", "-")

\* name.lower().replace('-', '_') in getcommand and _Command.__call__
method_name_of(name) == str_replace(str_lower(name), "-", "_")

\* the names in play, and method_name_of tabulated over them
AllNames ==
    Idents \cup ExplicitNames \cup LookupNames
        \cup {derived_name(ident) : ident \in Idents}

MethodNames == [name \in AllNames |-> method_name_of(name)]

\* getcommand(cls, name): for base in [cls] + [*cls.__bases__], the
\* __command__ of getattr(base, method_name), the first one found
getcommand(cls, name) ==
    LET chain == <<cls>> \o bases(cls)
        attr(i) == class_getattr(chain[i], MethodNames[name])
        hits == {i \in 1..Len(chain) :
                    /\ attr(i).found
                    /\ classes[attr(i).cls][attr(i).ident].has_command}
    IN  IF hits = {} THEN NoCommand
        ELSE LET first == CHOOSE i \in hits : \A j \in hits : i <= j
             IN  [name |-> classes[attr(first).cls][attr(first).ident].name,
                  cls |-> attr(first).cls, ident |-> attr(first).ident]

NoHandler == <<"", <<>>>>

command_call_unchecked(cmd, target) ==
    LET method == class_getattr(target, MethodNames[cmd.name])
    IN  IF ~method.found THEN [raised |-> "AttributeError", ran |-> NoHandler]
        ELSE [raised |-> "none", ran |-> <<method.cls, method.ident>>]

\* _Command.__call__(target): the handler is getattr(target, method_name)
command_call(cmd, target) ==
    LET method == class_getattr(target, MethodNames[cmd.name])
    IN  IF ~method.found THEN [raised |-> "AttributeError", ran |-> NoHandler]
        ELSE IF classes[method.cls][method.ident].kind # "function"
        THEN [raised |-> "TypeError", ran |-> NoHandler]
        ELSE [raised |-> "none", ran |-> <<method.cls, method.ident>>]

\* dir(cls): the names of the attributes of the class and its bases, sorted
dir(cls) ==
    SortedSeq({ident \in Idents : class_getattr(cls, ident).found})

\* getcommands(cls): getcommand(cls, name) for each name of dir(cls), the
\* names without a command left out
getcommands(cls) ==
    LET Test(name) == getcommand(cls, name) # NoCommand
        listed == SelectSeq(dir(cls), Test)
    IN  [i \in 1..Len(listed) |-> getcommand(cls, listed[i])]

\* @command(name=name) applied to the function ident: the name given or the
\* derived one, checked by _Command.__init__
command(ident, name) ==
    LET command_name == IF name = <<>> THEN derived_name(ident) ELSE name
    IN  IF ~name_pattern_match(command_name)
        THEN [raised |-> "ValueError", name |-> <<>>]
        ELSE [raised |-> "none", name |-> command_name]

MemberCount ==
    Cardinality({m \in ClassNames \X Idents :
                    classes[m[1]][m[2]].kind # "absent"})

InitCmd ==
    /\ backend = "binance"
    /\ pricing = Idle
    /\ book = Idle
    /\ minimum_trade_sizes = [built |-> FALSE]
    /\ call = Idle
    /\ events = <<>>
    /\ outcome = Idle
    /\ classes = [cls \in ClassNames |-> [ident \in Idents |-> Absent]]
    /\ exchanges = Idle

Others == <<backend, pricing, book, minimum_trade_sizes, events, exchanges>>

\* a decorated method in the body of a class: the function becomes a member
\* of the class unless the decorator raises
Command ==
    /\ call = Idle
    /\ \E cls \in ClassNames, ident \in Idents, name \in ExplicitNames :
          LET r == command(ident, name)
          IN  /\ classes[cls][ident].kind # "absent" \/ MemberCount < MaxMembers
              /\ call' = [pc |-> "returned", op |-> "command", cls |-> cls,
                          ident |-> ident, name |-> name]
              /\ outcome' = [raised |-> r.raised,
                             kind |-> IF r.raised = "none" THEN "command"
                                      ELSE "none",
                             value |-> [name |-> r.name, cls |-> cls,
                                        ident |-> ident]]
              /\ classes' = IF r.raised # "none" THEN classes
                            ELSE [classes EXCEPT ![cls][ident] =
                                     [kind |-> "function", has_command |-> TRUE,
                                      name |-> r.name]]
    /\ UNCHANGED Others

\* a method without the decorator, or an attribute that is not a function
DefineMember ==
    /\ call = Idle
    /\ \E cls \in ClassNames, ident \in Idents, kind \in {"function", "value"} :
          /\ classes[cls][ident].kind # "absent" \/ MemberCount < MaxMembers
          /\ call' = [pc |-> "returned", op |-> "define", cls |-> cls,
                      ident |-> ident]
          /\ outcome' = [raised |-> "none", kind |-> "none", value |-> NoCommand]
          /\ classes' = [classes EXCEPT ![cls][ident] =
                            [kind |-> kind, has_command |-> FALSE,
                             name |-> <<>>]]
    /\ UNCHANGED Others

GetCommand ==
    /\ call = Idle
    /\ \E cls \in ClassNames, name \in LookupNames :
          /\ call' = [pc |-> "returned", op |-> "getcommand", cls |-> cls,
                      name |-> name]
          /\ outcome' = [raised |-> "none",
                         kind |-> IF getcommand(cls, name) = NoCommand
                                  THEN "None" ELSE "command",
                         value |-> getcommand(cls, name)]
    /\ UNCHANGED <<classes, Others>>

\* the command line: the arguments are parsed (parse_args leaves with
\* SystemExit on bad input), then the command found for the name is called
\* on the target
InvokeCommand ==
    /\ call = Idle
    /\ \E cls \in ClassNames, name \in LookupNames, target \in ClassNames,
          input_ok \in BOOLEAN :
          LET cmd == getcommand(cls, name)
              r == IF input_ok THEN command_call(cmd, target)
                   ELSE [raised |-> "SystemExit", ran |-> NoHandler]
          IN  /\ cmd # NoCommand
              /\ call' = [pc |-> "returned", op |-> "invoke", cls |-> cls,
                          name |-> name, target |-> target,
                          input_ok |-> input_ok]
              /\ outcome' = [raised |-> r.raised, kind |-> "handler",
                             value |-> cmd, ran |-> r.ran]
    /\ UNCHANGED <<classes, Others>>

GetCommands ==
    /\ call = Idle
    /\ \E cls \in ClassNames :
          /\ call' = [pc |-> "returned", op |-> "getcommands", cls |-> cls]
          /\ outcome' = [raised |-> "none", kind |-> "commands",
                         value |-> getcommands(cls)]
    /\ UNCHANGED <<classes, Others>>

NextCmd ==
    \/ Command
    \/ DefineMember
    \/ GetCommand
    \/ InvokeCommand
    \/ GetCommands
    \/ Return

SpecCmd == InitCmd /\ [][NextCmd]_vars

IsCall(op) == call # Idle /\ call.op = op

\* the spellings of a command name that differ in letter case and in hyphen
\* or underscore only
Spellings(name) ==
    {spelled \in LookupNames :
        str_lower(spelled) \in {name, str_replace(name, "-", "_")}}

\* C14: a method decorated without a name is registered under its
\* identifier in lower case with hyphens for underscores; every spelling of
\* that name resolves to the command just registered, and calling it on an
\* instance runs the decorated method
C14_DerivedNameResolves ==
    (IsCall("command") /\ call.name = <<>> /\ outcome.raised = "none") =>
        /\ outcome.value.name
              = str_replace(str_lower(call.ident), "_", "-")
        /\ \A spelled \in Spellings(outcome.value.name) :
              /\ getcommand(call.cls, spelled) = outcome.value
              /\ command_call(getcommand(call.cls, spelled), call.cls).ran
                    = <<call.cls, call.ident>>

\* C15: a decoration whose name, given or derived, is not a valid name
\* raises, and no command held by a class has a name that is not valid
C15_InvalidNameRejected ==
    /\ (/\ IsCall("command")
        /\ ~IsValidName(IF call.name = <<>> THEN derived_name(call.ident)
                        ELSE call.name))
          => outcome.raised # "none"
    /\ \A cls \in ClassNames, ident \in Idents :
          (classes # Idle /\ classes[cls][ident].has_command)
              => IsValidName(classes[cls][ident].name)

Declares(cls, name) ==
    \E ident \in Idents :
        classes[cls][ident].has_command /\ classes[cls][ident].name = name

\* C16: where the derived class and its base both declare a command of one
\* name, resolving that name on the derived class gives the command of the
\* derived class, and calling it on an instance of the derived class runs
\* the method of the derived class
C16_SubtypeOverrides ==
    (/\ IsCall("invoke")
     /\ call.cls = "Sub"
     /\ call.target = "Sub"
     /\ call.input_ok
     /\ Declares("Sub", call.name)
     /\ Declares("Base", call.name))
        => /\ outcome.raised = "none"
           /\ outcome.value.cls = "Sub"
           /\ outcome.ran[1] = "Sub"

BindingErrors == {"AttributeError", "TypeError"}

\* the target has a callable attribute under the method name of the command
Bound(cmd, target) ==
    LET method == class_getattr(target, method_name_of(cmd.name))
    IN  method.found /\ classes[method.cls][method.ident].kind = "function"

\* C17: calling a resolved command on a target that has no callable
\* attribute under the command's method name raises AttributeError or
\* TypeError and runs no handler; bad input ends in neither of the two
C17_BindingError ==
    IsCall("invoke") =>
        /\ (call.input_ok /\ ~Bound(outcome.value, call.target)) =>
              /\ outcome.raised \in BindingErrors
              /\ outcome.ran = NoHandler
        /\ ~call.input_ok =>
              /\ outcome.raised \notin BindingErrors \cup {"none"}
              /\ outcome.ran = NoHandler

\* the attribute is there and is not callable
C17_Witness ==
    /\ IsCall("invoke")
    /\ call.input_ok
    /\ class_getattr(call.target, method_name_of(outcome.value.name)).found
    /\ outcome.raised = "TypeError"
    /\ outcome.ran = NoHandler

\* C18: building the list of commands of a class that declares two commands
\* of one name raises
C18_DuplicateNamesFail ==
    (/\ IsCall("getcommands")
     /\ \E i \in Idents, j \in Idents :
           /\ i # j
           /\ classes[call.cls][i].has_command
           /\ classes[call.cls][j].has_command
           /\ classes[call.cls][i].name = classes[call.cls][j].name)
        => outcome.raised # "none"

\* C30: every command getcommands(cls) lists is the command getcommand(cls,
\* name) resolves its name to and, invoked on an instance of cls, runs the
\* function it was declared on
C30_ListedResolves ==
    IsCall("getcommands") =>
        \A i \in 1..Len(outcome.value) :
            /\ getcommand(call.cls, outcome.value[i].name) = outcome.value[i]
            /\ command_call(outcome.value[i], call.cls).raised = "none"
            /\ command_call(outcome.value[i], call.cls).ran
                   = <<outcome.value[i].cls, outcome.value[i].ident>>

(***************************************************************************)
(* The registry of exchanges: exchanges/__init__.py and the exchange_name  *)
(* decorator of exchanges/abstract.py                                      *)
(***************************************************************************)

\* the classes the module mistertrade.exchanges holds at most
MaxClasses == 3

BinanceName == <<"b", "i", "n", "a", "n", "c", "e">>
BittrexName == <<"b", "i", "t", "t", "r", "e", "x">>
HitbtcName == <<"h", "i", "t", "b", "t", "c">>

\* the names classes are tagged with: the three exchanges, a name that is too
\* short, a name in mixed case and a name ending in a newline
TagNames ==
    {BinanceName, BittrexName, HitbtcName, <<"b", "i">>,
     <<"B">> \o Tail(BittrexName), BittrexName \o <<"\n">>}

\* an attribute of the module, in the order of dir(module): a class that is
\* or is not a subclass of Exchange and has or has not an __exchange_name__
NoClass ==
    [defined |-> FALSE, is_exchange |-> FALSE, tagged |-> FALSE, name |-> <<>>]

\* is_exchange_class(cls)
is_exchange_class(cls) == cls.defined /\ cls.is_exchange /\ cls.tagged

\* exchange_name(name): what the decorator raises for the name
exchange_name(name) ==
    IF ~name_pattern_match(name) THEN "ValueError" ELSE "none"

\* get_exchange_classes(module) / get_exchange_instances(module): the keys of
\* the dict, in the order they are first inserted
RECURSIVE exchange_keys(_, _)
exchange_keys(attrs, n) ==
    IF n = 0 THEN <<>>
    ELSE LET before == exchange_keys(attrs, n - 1)
         IN  IF is_exchange_class(attrs[n])
                  /\ ~\E i \in 1..Len(before) : before[i] = attrs[n].name
             THEN Append(before, attrs[n].name)
             ELSE before

\* get_exchange_instances(module): the items of the dict, one instance
\* klass() per key.  A class whose name is a key already takes the place of
\* the class held under it, so only the last class of a name is instantiated.
RECURSIVE exchange_instances(_, _)
exchange_instances(attrs, n) ==
    IF n = 0 THEN <<>>
    ELSE LET before == exchange_instances(attrs, n - 1)
             item == [name |-> attrs[n].name, klass |-> n]
         IN  IF ~is_exchange_class(attrs[n]) THEN before
             ELSE IF \E i \in 1..Len(before) : before[i].name = attrs[n].name
             THEN [i \in 1..Len(before) |->
                      IF before[i].name = attrs[n].name THEN item
                      ELSE before[i]]
             ELSE Append(before, item)

\* _exchanges.get(name): the instance held under the name, or None
NoInstance == [name |-> <<>>, klass |-> 0]

exchanges_get(instances, name) ==
    IF \E i \in 1..Len(instances) : instances[i].name = name
    THEN instances[CHOOSE i \in 1..Len(instances) : instances[i].name = name]
    ELSE NoInstance

Range(seq) == {seq[i] : i \in 1..Len(seq)}

exchange_names_unsorted(attrs) == exchange_keys(attrs, Len(attrs))

\* _exchange_names = list(_exchanges.keys()); _exchange_names.sort()
exchange_names(attrs) == SortedSeq(Range(exchange_keys(attrs, Len(attrs))))

InitReg ==
    /\ backend = "binance"
    /\ pricing = Idle
    /\ book = Idle
    /\ minimum_trade_sizes = [built |-> FALSE]
    /\ call = Idle
    /\ events = <<>>
    /\ outcome = Idle
    /\ classes = Idle
    /\ exchanges = [pc |-> "importing",
                    attrs |-> [key \in 1..MaxClasses |-> NoClass],
                    names |-> <<>>, instances |-> <<>>]

OthersReg == <<backend, pricing, book, minimum_trade_sizes, events, classes>>

\* @exchange_name(name) on a class of a module under apis: a ValueError
\* ends the import
ExchangeName ==
    /\ call = Idle
    /\ exchanges.pc = "importing"
    /\ \E key \in 1..MaxClasses, name \in TagNames, is_exchange \in BOOLEAN :
          /\ ~exchanges.attrs[key].defined
          /\ call' = [pc |-> "returned", op |-> "exchange_name", name |-> name]
          /\ outcome' = [raised |-> exchange_name(name), kind |-> "none",
                         value |-> <<>>]
          /\ exchanges' =
                IF exchange_name(name) # "none"
                THEN [exchanges EXCEPT !.pc = "failed"]
                ELSE [exchanges EXCEPT !.attrs[key] =
                         [defined |-> TRUE, is_exchange |-> is_exchange,
                          tagged |-> TRUE, name |-> name]]
    /\ UNCHANGED OthersReg

\* a subclass of Exchange without the decorator
DefineUntagged ==
    /\ call = Idle
    /\ exchanges.pc = "importing"
    /\ \E key \in 1..MaxClasses :
          /\ ~exchanges.attrs[key].defined
          /\ exchanges' = [exchanges EXCEPT !.attrs[key] =
                              [defined |-> TRUE, is_exchange |-> TRUE,
                               tagged |-> FALSE, name |-> <<>>]]
    /\ UNCHANGED <<call, outcome, OthersReg>>

\* the body of exchanges/__init__.py after its imports
Scan ==
    /\ call = Idle
    /\ exchanges.pc = "importing"
    /\ exchanges' = [exchanges EXCEPT
                         !.pc = "ready",
                         !.names = exchange_names(exchanges.attrs),
                         !.instances = exchange_instances(exchanges.attrs,
                                                          MaxClasses)]
    /\ UNCHANGED <<call, outcome, OthersReg>>

\* names()
Names ==
    /\ call = Idle
    /\ exchanges.pc = "ready"
    /\ call' = [pc |-> "returned", op |-> "names"]
    /\ outcome' = [raised |-> "none", kind |-> "names",
                   value |-> exchanges.names]
    /\ UNCHANGED <<exchanges, OthersReg>>

\* get(name)
Get ==
    /\ call = Idle
    /\ exchanges.pc = "ready"
    /\ \E name \in TagNames :
          /\ call' = [pc |-> "returned", op |-> "get", name |-> name]
          /\ outcome' = [raised |-> "none", kind |-> "instance",
                         value |-> exchanges_get(exchanges.instances, name)]
    /\ UNCHANGED <<exchanges, OthersReg>>

\* api(name, ...): a new API object of the instance held under the name;
\* None has no attribute api
Api ==
    /\ call = Idle
    /\ exchanges.pc = "ready"
    /\ \E name \in TagNames :
          LET found == exchanges_get(exchanges.instances, name)
          IN  /\ call' = [pc |-> "returned", op |-> "api", name |-> name]
              /\ outcome' =
                    IF found = NoInstance
                    THEN [raised |-> "AttributeError", kind |-> "none",
                          value |-> NoInstance]
                    ELSE [raised |-> "none", kind |-> "api", value |-> found]
    /\ UNCHANGED <<exchanges, OthersReg>>

NextReg ==
    \/ ExchangeName
    \/ DefineUntagged
    \/ Scan
    \/ Names
    \/ Get
    \/ Api
    \/ Return

SpecReg == InitReg /\ [][NextReg]_vars

\* the names of the classes the scan registers
RegisteredNames ==
    {exchanges.attrs[key].name :
        key \in {k \in 1..MaxClasses : is_exchange_class(exchanges.attrs[k])}}

\* C19: names() returns the registered names in ascending order, each one
\* once; the sequence is fixed by the set of registered names, so every call
\* returns the same one
C19_NamesSorted ==
    IsCall("names") =>
        /\ \A i \in 1..(Len(outcome.value) - 1) :
              StrLess(outcome.value[i], outcome.value[i + 1])
        /\ Range(outcome.value) = RegisteredNames
        /\ outcome.value = exchanges.names

\* bittrex, binance and hitbtc registered, in this order of the module's
\* attributes
C19_Witness ==
    /\ IsCall("names")
    /\ exchanges.attrs[1].name = BittrexName
    /\ exchanges.attrs[2].name = BinanceName
    /\ exchanges.attrs[3].name = HitbtcName
    /\ outcome.value = <<BinanceName, BittrexName, HitbtcName>>

\* C20: tagging a class with a name that is not valid raises, and every name
\* of the registry is valid
C20_MalformedNameFails ==
    /\ (IsCall("exchange_name") /\ ~IsValidName(call.name))
          => outcome.raised # "none"
    /\ (exchanges # Idle /\ exchanges.pc = "ready")
          => \A i \in 1..Len(exchanges.names) : IsValidName(exchanges.names[i])


\* the module attributes that are tagged backends
TaggedBackends ==
    {k \in 1..MaxClasses : is_exchange_class(exchanges.attrs[k])}

\* C29: once the registry is built every tagged backend has its instance in
\* the map under its name, and get(name) returns the instance held under a
\* registered name and the absence value for any other name
C29_EachBackendIndexed ==
    exchanges.pc = "ready" =>
        /\ \A k \in TaggedBackends :
               exchanges_get(exchanges.instances, exchanges.attrs[k].name)
                   = [name |-> exchanges.attrs[k].name, klass |-> k]
        /\ (call # Idle /\ call.op = "get") =>
               IF call.name \in RegisteredNames
               THEN /\ outcome.value.name = call.name
                    /\ outcome.value.klass \in TaggedBackends
               ELSE outcome.value = NoInstance

=============================================================================
